---------------------------- MODULE Spec2Model ----------------------------
(***************************************************************************)
(* NoSpin backend services: NewsGatherer (concurrent fetch, normalization, *)
(* topic filter, image-priority sort), OpinionClassifier and ArticleScorer.*)
(*                                                                         *)
(* Python strings are sequences of one-character strings, so that lower(), *)
(* strip(), split(), replace() and the `in` substring test are computed.   *)
(* Other Python values are tagged records [t |-> tag, v |-> payload].      *)
(***************************************************************************)
EXTENDS Integers, Sequences, FiniteSets, Bags, TLC

(***************************************************************************)
(* Python str operations                                                   *)
(***************************************************************************)
Whitespace == {" ", "\t", "\n"}

UpperChars == <<"A","B","C","D","E","F","G","H","I","J","K","L","M","N","O","P","Q","R","S","T","U","V","W","X","Y","Z">>
LowerChars == <<"a","b","c","d","e","f","g","h","i","j","k","l","m","n","o","p","q","r","s","t","u","v","w","x","y","z">>
Digits == {"0","1","2","3","4","5","6","7","8","9"}

LowerChar(c) ==
  IF \E i \in 1..Len(UpperChars) : UpperChars[i] = c
  THEN LowerChars[CHOOSE i \in 1..Len(UpperChars) : UpperChars[i] = c]
  ELSE c

\* str.lower()
Lower(s) == [i \in 1..Len(s) |-> LowerChar(s[i])]

\* k in s  (substring test; the empty string is in every string)
IsSubstr(k, s) ==
  \E i \in 0..(Len(s) - Len(k)) : SubSeq(s, i + 1, i + Len(k)) = k

\* s.startswith(p)
StartsWith(s, p) == Len(s) >= Len(p) /\ SubSeq(s, 1, Len(p)) = p

\* str.strip()
Strip(s) ==
  LET keep == {i \in 1..Len(s) : s[i] \notin Whitespace}
  IN  IF keep = {} THEN <<>>
      ELSE LET lo == CHOOSE i \in keep : \A j \in keep : i <= j
               hi == CHOOSE i \in keep : \A j \in keep : i >= j
           IN  SubSeq(s, lo, hi)

RECURSIVE SplitFrom(_, _, _, _)
SplitFrom(s, i, cur, acc) ==
  IF i > Len(s) THEN (IF cur = <<>> THEN acc ELSE Append(acc, cur))
  ELSE IF s[i] \in Whitespace
       THEN SplitFrom(s, i + 1, <<>>, IF cur = <<>> THEN acc ELSE Append(acc, cur))
       ELSE SplitFrom(s, i + 1, Append(cur, s[i]), acc)

\* str.split(): split on runs of whitespace, no empty tokens
Split(s) == SplitFrom(s, 1, <<>>, <<>>)

RECURSIVE SplitOnFrom(_, _, _, _, _)
SplitOnFrom(s, sep, i, cur, acc) ==
  IF i > Len(s) THEN Append(acc, cur)
  ELSE IF s[i] = sep
       THEN SplitOnFrom(s, sep, i + 1, <<>>, Append(acc, cur))
       ELSE SplitOnFrom(s, sep, i + 1, Append(cur, s[i]), acc)

\* str.split(sep) for a one-character separator: empty fields are kept
SplitOn(s, sep) == SplitOnFrom(s, sep, 1, <<>>, <<>>)

RECURSIVE RemoveAll(_, _)
\* str.replace(old, ''): every non-overlapping occurrence, left to right
RemoveAll(s, old) ==
  IF s = <<>> THEN <<>>
  ELSE IF StartsWith(s, old) THEN RemoveAll(SubSeq(s, Len(old) + 1, Len(s)), old)
       ELSE <<s[1]>> \o RemoveAll(Tail(s), old)

\* urllib.parse.quote(s): unreserved characters and '/' are kept, the others
\* are percent-encoded (the table covers the characters the inputs use)
QuoteSafe ==
  {UpperChars[i] : i \in 1..Len(UpperChars)} \cup
  {LowerChars[i] : i \in 1..Len(LowerChars)} \cup Digits \cup {"_", ".", "-", "~", "/"}

QuoteChar(c) ==
  IF c \in QuoteSafe THEN <<c>>
  ELSE CASE c = " "  -> <<"%", "2", "0">>
         [] c = "\t" -> <<"%", "0", "9">>
         [] c = "\n" -> <<"%", "0", "A">>
         [] c = "&"  -> <<"%", "2", "6">>
         [] c = ":"  -> <<"%", "3", "A">>
         [] OTHER    -> <<"%", "3", "F">>

RECURSIVE Quote(_)
Quote(s) == IF s = <<>> THEN <<>> ELSE QuoteChar(s[1]) \o Quote(Tail(s))

(***************************************************************************)
(* Python values                                                           *)
(***************************************************************************)
Absent == [t |-> "absent", v |-> <<>>]     \* attribute / key not present
PyNone == [t |-> "none", v |-> <<>>]
Str(s) == [t |-> "str", v |-> s]
List(l) == [t |-> "list", v |-> l]
Dict(d) == [t |-> "dict", v |-> d]

\* bool(x)
Truthy(x) ==
  CASE x.t = "none" -> FALSE
    [] x.t = "str"  -> Len(x.v) > 0
    [] x.t = "list" -> Len(x.v) > 0
    [] OTHER        -> TRUE

\* getattr(obj, name, default) on an object whose attributes are fields
GetAttr(obj, name, default) == IF obj[name] = Absent THEN default ELSE obj[name]

(***************************************************************************)
(* NewsGatherer._normalize_articles                                        *)
(*                                                                         *)
(* A raw entry is a record of its attributes, each Absent or a Python      *)
(* value: title, published, updated, summary, description, link,           *)
(* media_content, media_thumbnail, enclosures.  A parsed feed is           *)
(* [feed |-> Absent or Dict([title |-> ...]), entries |-> Absent or List]. *)
(***************************************************************************)
NoTitle == Str(<<"N","o"," ","T","i","t","l","e">>)
UnknownDate == Str(<<"U","n","k","n","o","w","n"," ","D","a","t","e">>)
NoContent == Str(<<"N","o"," ","C","o","n","t","e","n","t"," ","A","v","a","i","l","a","b","l","e">>)
PlaceholderHost == <<"u","i","-","a","v","a","t","a","r","s",".","c","o","m">>
ImagePrefix == <<"i","m","a","g","e","/">>
WwwDot == <<"w","w","w",".">>

Raised == [ok |-> FALSE, val |-> PyNone]
Ok(x) == [ok |-> TRUE, val |-> x]

\* x[0]
Index0(x) ==
  CASE x.t = "list" /\ Len(x.v) > 0 -> Ok(x.v[1])
    [] x.t = "str" /\ Len(x.v) > 0  -> Ok(Str(<<x.v[1]>>))
    [] OTHER                        -> Raised

\* x['url']
ItemUrl(x) ==
  IF x.t = "dict" /\ x.v.url # Absent THEN Ok(x.v.url) ELSE Raised

\* step 1: entry.media_content[0]['url'] when the key is there; any
\* exception leaves image_url as None
ImageFromMediaContent(entry) ==
  IF entry.media_content = Absent THEN PyNone
  ELSE LET media == Index0(entry.media_content)
       IN  IF ~media.ok THEN PyNone
           ELSE IF media.val.t = "dict" /\ media.val.v.url # Absent
                THEN media.val.v.url
                ELSE PyNone

\* step 2: entry.media_thumbnail[0]['url']; any exception keeps image_url
ImageFromMediaThumbnail(entry, image_url) ==
  IF ~Truthy(image_url) /\ entry.media_thumbnail # Absent
  THEN LET thumb == Index0(entry.media_thumbnail)
           url == IF thumb.ok THEN ItemUrl(thumb.val) ELSE Raised
       IN  IF url.ok THEN url.val ELSE image_url
  ELSE image_url

\* getattr(enc, name, default): only feed objects carry attributes
EncAttr(enc, name, default) ==
  IF enc.t = "dict" THEN GetAttr(enc.v, name, default) ELSE default

RECURSIVE ScanEnclosures(_, _, _)
\* the for loop over entry.enclosures: enc_type.startswith raises when the
\* type is not a str; the first image enclosure sets image_url and breaks
ScanEnclosures(encs, i, image_url) ==
  IF i > Len(encs) THEN Ok(image_url)
  ELSE LET enc_type == EncAttr(encs[i], "type", Str(<<>>))
       IN  IF enc_type.t # "str" THEN Raised
           ELSE IF StartsWith(enc_type.v, ImagePrefix)
                THEN Ok(EncAttr(encs[i], "href", PyNone))
                ELSE ScanEnclosures(encs, i + 1, image_url)

\* step 3: not wrapped in try/except
ImageFromEnclosures(entry, image_url) ==
  IF ~Truthy(image_url) /\ entry.enclosures # Absent
  THEN IF entry.enclosures.t # "list" THEN Raised
       ELSE ScanEnclosures(entry.enclosures.v, 1, image_url)
  ELSE Ok(image_url)

BgColor(bucket) ==
  CASE bucket = "left"  -> <<"e","3","f","2","f","d">>
    [] bucket = "right" -> <<"f","f","e","b","e","e">>
    [] OTHER            -> <<"e","e","e">>

FgColor(bucket) ==
  CASE bucket = "left"  -> <<"0","d","4","7","a","1">>
    [] bucket = "right" -> <<"b","7","1","c","1","c">>
    [] OTHER            -> <<"3","3","3">>

PlaceholderUrl(source_name, bucket) ==
  <<"h","t","t","p","s",":","/","/","u","i","-","a","v","a","t","a","r","s",".","c","o","m","/","a","p","i","/","?","n","a","m","e","=">> \o Quote(source_name)
  \o <<"&","b","a","c","k","g","r","o","u","n","d","=">> \o BgColor(bucket)
  \o <<"&","c","o","l","o","r","=">> \o FgColor(bucket)
  \o <<"&","s","i","z","e","=","1","2","8","&","b","o","l","d","=","t","r","u","e","&","f","o","n","t","-","s","i","z","e","=","0",".","5","&","l","e","n","g","t","h","=","2">>

\* ImageFallback without step 4
ImageNoFallback(image_url, source_name, bucket) == Ok(image_url)

\* step 4: the generated avatar when no image was found; quote() raises on
\* a source name that is not a str
ImageFallback(image_url, source_name, bucket) ==
  IF Truthy(image_url) THEN Ok(image_url)
  ELSE IF source_name.t # "str" THEN Raised
       ELSE Ok(Str(PlaceholderUrl(source_name.v, bucket)))

\* the whole image chain of one entry
ResolveImage(entry, source_name, bucket) ==
  LET i1 == ImageFromMediaContent(entry)
      i2 == ImageFromMediaThumbnail(entry, i1)
      i3 == ImageFromEnclosures(entry, i2)
  IN  IF ~i3.ok THEN Raised ELSE ImageFallback(i3.val, source_name, bucket)

\* feed_data.feed.title, else the host part of the source URL
SourceName(feed_data, source_url) ==
  IF feed_data.feed # Absent /\ feed_data.feed.v.title # Absent
  THEN Ok(feed_data.feed.v.title)
  ELSE LET parts == SplitOn(source_url, "/")
       IN  IF Len(parts) < 3 THEN Raised
           ELSE Ok(Str(RemoveAll(parts[3], WwwDot)))

\* one iteration of the loop over feed_data.entries
NormalizeEntry(entry, bucket, source_name, source_url) ==
  LET title == GetAttr(entry, "title", NoTitle)
      published_at == GetAttr(entry, "published", GetAttr(entry, "updated", UnknownDate))
      content == GetAttr(entry, "summary", GetAttr(entry, "description", NoContent))
      link == GetAttr(entry, "link", Str(source_url))
      image == ResolveImage(entry, source_name, bucket)
  IN  IF ~image.ok \/ title.t # "str" \/ source_name.t # "str" \/ content.t # "str"
      THEN Raised
      ELSE Ok([title |-> Str(Strip(title.v)),
               source |-> Str(Strip(source_name.v)),
               political_bucket |-> bucket,
               published_at |-> published_at,
               content |-> Str(Strip(content.v)),
               link |-> link,
               image |-> image.val])

RECURSIVE NormalizeFrom(_, _, _, _, _, _)
NormalizeFrom(entries, i, bucket, source_name, source_url, acc) ==
  IF i > Len(entries) THEN Ok(acc)
  ELSE LET art == NormalizeEntry(entries[i], bucket, source_name, source_url)
       IN  IF ~art.ok THEN Raised
           ELSE NormalizeFrom(entries, i + 1, bucket, source_name, source_url,
                              Append(acc, art.val))

\* _normalize_articles(feed_data, bucket, source_url): Ok(list) or Raised
NormalizeArticles(feed_data, bucket, source_url) ==
  LET source_name == SourceName(feed_data, source_url)
  IN  IF ~source_name.ok \/ feed_data.entries.t # "list" THEN Raised
      ELSE NormalizeFrom(feed_data.entries.v, 1, bucket, source_name.val, source_url, <<>>)

(***************************************************************************)
(* NewsGatherer: configuration, fetch, collection, filter and sort         *)
(***************************************************************************)
MaxWorkers == 10

RightKey == <<"r","i","g","h","t","_","l","e","a","n","i","n","g","_","s","o","u","r","c","e","s">>
LeftKey == <<"l","e","f","t","_","l","e","a","n","i","n","g","_","s","o","u","r","c","e","s">>
CenterKey == <<"c","e","n","t","e","r","_","s","o","u","r","c","e","s">>
RequiredKeys == <<RightKey, LeftKey, CenterKey>>

RECURSIVE AddMissingKeys(_, _)
AddMissingKeys(data, i) ==
  IF i > Len(RequiredKeys) THEN data
  ELSE IF \E j \in 1..Len(data) : data[j][1] = RequiredKeys[i]
       THEN AddMissingKeys(data, i + 1)
       ELSE AddMissingKeys(Append(data, <<RequiredKeys[i], <<>>>>), i + 1)

\* _load_config: file is [found, valid, data]; data is the sequence of
\* <<key, url list>> pairs of the JSON object, in file order
LoadConfig(file) ==
  IF ~file.found \/ ~file.valid THEN <<>>
  ELSE AddMissingKeys(file.data, 1)

\* the bucket name of a config key (lines 102-104)
SimpleBucketName(key) ==
  IF IsSubstr(<<"r","i","g","h","t">>, key) THEN "right"
  ELSE IF IsSubstr(<<"l","e","f","t">>, key) THEN "left"
  ELSE "center"

RECURSIVE BuildTasks(_, _)
\* the (url, bucket) task list, in config order (lines 100-107)
BuildTasks(srcs, i) ==
  IF i > Len(srcs) THEN <<>>
  ELSE [j \in 1..Len(srcs[i][2]) |->
          [url |-> srcs[i][2][j], bucket |-> SimpleBucketName(srcs[i][1])]]
       \o BuildTasks(srcs, i + 1)

\* _fetch_articles: outcome is what feedparser.parse does for the URL,
\* [raises |-> BOOLEAN, feed |-> parsed feed]; the result is what the future
\* holds, a value or an exception
FetchArticles(feedparser_ok, outcome) ==
  IF ~feedparser_ok THEN Ok(PyNone)
  ELSE IF outcome.raises THEN Ok(PyNone)
  ELSE Ok(outcome.feed)

\* CollectResult without the except clause of line 122: a failing
\* normalization propagates out of gather_articles
CollectResultNoExcept(arts, task, res) ==
  IF ~res.ok THEN [articles |-> arts, raised |-> TRUE]
  ELSE IF ~Truthy(res.val) THEN [articles |-> arts, raised |-> FALSE]
  ELSE LET normalized == NormalizeArticles(res.val.v, task.bucket, task.url)
       IN  IF ~normalized.ok THEN [articles |-> arts, raised |-> TRUE]
           ELSE [articles |-> arts \o normalized.val, raised |-> FALSE]

\* CollectResult assigning instead of extending: the articles merged so
\* far are replaced by those of the latest feed
CollectResultOverwrite(arts, task, res) ==
  IF ~res.ok THEN [articles |-> arts, raised |-> FALSE]
  ELSE IF ~Truthy(res.val) THEN [articles |-> arts, raised |-> FALSE]
  ELSE LET normalized == NormalizeArticles(res.val.v, task.bucket, task.url)
       IN  IF ~normalized.ok THEN [articles |-> arts, raised |-> FALSE]
           ELSE [articles |-> normalized.val, raised |-> FALSE]

\* the body of the as_completed loop (lines 116-123) for one future
CollectResult(arts, task, res) ==
  IF ~res.ok THEN [articles |-> arts, raised |-> FALSE]
  ELSE IF ~Truthy(res.val) THEN [articles |-> arts, raised |-> FALSE]
  ELSE LET normalized == NormalizeArticles(res.val.v, task.bucket, task.url)
       IN  IF ~normalized.ok THEN [articles |-> arts, raised |-> FALSE]
           ELSE [articles |-> arts \o normalized.val, raised |-> FALSE]

STOP_WORDS ==
  {<<"c","r","i","s","i","s">>, <<"c","o","n","f","l","i","c","t">>, <<"p","r","o","t","e","s","t">>, <<"w","a","r">>, <<"n","e","w","s">>, <<"r","e","p","o","r","t">>, <<"u","p","d","a","t","e">>,
   <<"a","n","a","l","y","s","i","s">>, <<"2","0","2","0">>, <<"2","0","2","1">>, <<"2","0","2","2">>, <<"b","r","e","a","k","i","n","g">>}

\* Keywords without the two fallbacks of lines 132-133
KeywordsNoFallback(topic) ==
  LET words == SelectSeq(Split(topic), LAMBDA w : Len(w) > 3)
      raw_keywords == [i \in 1..Len(words) |-> Lower(words[i])]
  IN  SelectSeq(raw_keywords, LAMBDA k : k \notin STOP_WORDS)

\* the keyword list of a truthy topic (lines 130-133)
Keywords(topic) ==
  LET words == SelectSeq(Split(topic), LAMBDA w : Len(w) > 3)
      raw_keywords == [i \in 1..Len(words) |-> Lower(words[i])]
      kept == SelectSeq(raw_keywords, LAMBDA k : k \notin STOP_WORDS)
  IN  IF kept = <<>> /\ raw_keywords # <<>> THEN raw_keywords
      ELSE IF kept = <<>> THEN <<Lower(topic)>>
      ELSE kept

\* TextToSearch without .lower()
TextToSearchCaseSensitive(art) == art.title.v \o <<" ">> \o art.content.v

\* line 136
TextToSearch(art) == Lower(art.title.v \o <<" ">> \o art.content.v)

\* line 137
MatchesAny(art, kws) ==
  \E i \in 1..Len(kws) : IsSubstr(kws[i], TextToSearch(art))

\* lines 126-138
FilterByTopic(arts, topic) ==
  IF ~Truthy(topic) THEN arts
  ELSE SelectSeq(arts, LAMBDA art : MatchesAny(art, Keywords(topic.v)))

\* the sort key of line 142
ImageKey(art) == IF ~IsSubstr(PlaceholderHost, art.image.v) THEN 0 ELSE 1

RECURSIVE InsertBeforeEqual(_, _)
\* InsertByKey as an unstable sort would place x: before the elements of
\* equal key
InsertBeforeEqual(sorted, x) ==
  IF sorted = <<>> THEN <<x>>
  ELSE IF ImageKey(sorted[1]) < ImageKey(x)
       THEN <<sorted[1]>> \o InsertBeforeEqual(Tail(sorted), x)
       ELSE <<x>> \o sorted

RECURSIVE InsertByKey(_, _)
\* x goes after every element whose key is not larger (list.sort is stable)
InsertByKey(sorted, x) ==
  IF sorted = <<>> THEN <<x>>
  ELSE IF ImageKey(sorted[1]) <= ImageKey(x)
       THEN <<sorted[1]>> \o InsertByKey(Tail(sorted), x)
       ELSE <<x>> \o sorted

RECURSIVE SortFrom(_, _, _)
SortFrom(arts, i, acc) ==
  IF i > Len(arts) THEN acc ELSE SortFrom(arts, i + 1, InsertByKey(acc, arts[i]))

\* filtered.sort(key=...) (line 142)
SortByImage(arts) == SortFrom(arts, 1, <<>>)

(***************************************************************************)
(* OpinionClassifier                                                       *)
(* Scores are integers in units of 0.0001 (0.15 is 1500, 1.0 is 10000).    *)
(***************************************************************************)
StanceThreshold == 1500

PositiveWords ==
  <<<<"e","x","c","e","l","l","e","n","t">>, <<"g","o","o","d">>, <<"g","r","e","a","t">>, <<"s","u","p","p","o","r","t">>, <<"l","i","b","e","r","t","y">>, <<"f","r","e","e","d","o","m">>, <<"s","a","v","e">>, <<"p","e","a","c","e">>,
    <<"r","e","f","o","r","m","s">>, <<"m","o","d","e","r","n","i","z","a","t","i","o","n">>, <<"e","f","f","i","c","i","e","n","t">>, <<"n","e","c","e","s","s","a","r","y">>, <<"r","e","v","i","v","a","l">>, <<"e","s","s","e","n","t","i","a","l">>,
    <<"w","o","r","k","i","n","g">>>>

NegativeWords ==
  <<<<"t","e","r","r","i","b","l","e">>, <<"b","a","d">>, <<"w","o","r","s","t">>, <<"h","a","t","e">>, <<"f","a","i","l">>, <<"c","r","i","s","i","s">>, <<"d","e","s","t","r","o","y">>, <<"c","u","l","p","r","i","t">>,
    <<"b","l","o","c","k","e","d">>, <<"a","b","u","s","e","s">>, <<"c","h","e","a","t","s">>, <<"t","e","r","r","o","r">>, <<"c","r","u","s","h","e","d">>, <<"d","i","c","t","a","t","o","r","s","h","i","p">>,
    <<"t","h","r","e","a","t","e","n","i","n","g">>, <<"h","a","r","m">>, <<"h","u","r","t">>, <<"k","i","l","l">>>>

Max(a, b) == IF a >= b THEN a ELSE b
Min(a, b) == IF a <= b THEN a ELSE b

\* how many words of the list occur in the text (each word counts once)
WordsPresent(words, text) == Cardinality({i \in 1..Len(words) : IsSubstr(words[i], text)})

\* _analyze_sentiment: compound is what the analyzer's polarity_scores
\* gives for the text; without an analyzer the keyword fallback is used
AnalyzeSentiment(analyzer_ok, text, compound) ==
  IF analyzer_ok THEN compound
  ELSE LET text_lower == Lower(text)
           score == 3000 * WordsPresent(PositiveWords, text_lower)
                    - 3000 * WordsPresent(NegativeWords, text_lower)
       IN  Max(-10000, Min(10000, score))

\* DetermineStance with exclusive thresholds
DetermineStanceStrict(score) ==
  IF score > StanceThreshold THEN "IN_FAVOR"
  ELSE IF score < -StanceThreshold THEN "AGAINST"
  ELSE "NEUTRAL"

\* _determine_stance
DetermineStance(score) ==
  IF score >= StanceThreshold THEN "IN_FAVOR"
  ELSE IF score <= -StanceThreshold THEN "AGAINST"
  ELSE "NEUTRAL"

\* ClassifyArticle without the center override of lines 50-53
ClassifyArticleNoOverride(analyzer_ok, article, compound) ==
  LET text_to_analyze == article.title \o <<" ">> \o article.content
      score == IF Strip(text_to_analyze) = <<>> THEN 0
               ELSE AnalyzeSentiment(analyzer_ok, text_to_analyze, compound)
  IN  article @@ [sentiment_score |-> score, stance |-> DetermineStance(score)]

\* the body of the loop of classify_articles for one article
ClassifyArticle(analyzer_ok, article, compound) ==
  IF article.political_bucket = "center"
  THEN article @@ [sentiment_score |-> 0, stance |-> "NEUTRAL"]
  ELSE LET text_to_analyze == article.title \o <<" ">> \o article.content
           score == IF Strip(text_to_analyze) = <<>> THEN 0
                    ELSE AnalyzeSentiment(analyzer_ok, text_to_analyze, compound)
       IN  article @@ [sentiment_score |-> score, stance |-> DetermineStance(score)]

(***************************************************************************)
(* ArticleScorer                                                           *)
(* Scores are integers in tenths (30.0 is 300, the 1-10 score 1.0 is 10).  *)
(* A parsed document is the counts the metrics read from it.               *)
(***************************************************************************)
WeightSubjectivity == 30
WeightAttribution == 30
WeightAbsolutism == 20
WeightCallToAction == 20

\* round(n / d) to the nearest integer, ties to even
RoundHalfEven(n, d) ==
  LET q == n \div d
      r == n % d
  IN  IF 2 * r > d THEN q + 1
      ELSE IF 2 * r = d THEN q + (q % 2)
      ELSE q

\* _normalize(value, max_val, weight) with value / max_val = num / den
Normalize(num, den, weight) ==
  IF num >= den THEN 10 * weight ELSE RoundHalfEven(10 * weight * num, den)

\* metric_subjectivity: ratio / 0.25 is 4 * adj / fact
MetricSubjectivity(doc) ==
  IF doc.fact = 0 THEN 0 ELSE Normalize(4 * doc.adj, doc.fact, WeightSubjectivity)

\* metric_attribution_balance
MetricAttributionBalance(doc) ==
  CASE doc.sources = 0 -> 10 * WeightAttribution
    [] doc.sources = 1 -> 8 * WeightAttribution
    [] doc.sources = 2 -> 4 * WeightAttribution
    [] OTHER           -> 0

\* metric_absolutism
MetricAbsolutism(doc) == Normalize(doc.absolutist, 5, WeightAbsolutism)

\* metric_call_to_action
MetricCallToAction(doc) == Normalize(doc.cta, 2, WeightCallToAction)

\* the totals ending in 5 hundredths that round(total_bias / 10.0, 1) rounds
\* up: the double nearest to total / 10 decides, not the decimal tie rule
TiesRoundedUp ==
  {5, 45, 55, 65, 75, 105, 135, 155, 175, 185, 235, 245, 275, 285, 295, 335, 345,
   375, 385, 395, 415, 445, 465, 475, 495, 515, 545, 565, 575, 595, 615, 645, 665,
   675, 695, 715, 745, 765, 775, 795, 805, 815, 855, 865, 875, 905, 915, 955, 965,
   975}

\* round(total_bias / 10.0, 1) in tenths, total_bias in tenths
RoundScore(total) ==
  IF total % 10 = 5
  THEN (total \div 10) + (IF total \in TiesRoundedUp THEN 1 ELSE 0)
  ELSE (total + 5) \div 10

\* AnalyzeArticle without the floor of line 95
AnalyzeArticleNoFloor(nlp_ok, doc) ==
  IF ~nlp_ok THEN [bias_score_1_to_10 |-> 50, mocked |-> TRUE, details |-> <<0, 0, 0, 0>>]
  ELSE LET b1 == MetricSubjectivity(doc)
           b2 == MetricAttributionBalance(doc)
           b3 == MetricAbsolutism(doc)
           b4 == MetricCallToAction(doc)
       IN  [bias_score_1_to_10 |-> Min(100, RoundScore(b1 + b2 + b3 + b4)),
            mocked |-> FALSE, details |-> <<b1, b2, b3, b4>>]

\* analyze_article
AnalyzeArticle(nlp_ok, doc) ==
  IF ~nlp_ok THEN [bias_score_1_to_10 |-> 50, mocked |-> TRUE, details |-> <<0, 0, 0, 0>>]
  ELSE LET b1 == MetricSubjectivity(doc)
           b2 == MetricAttributionBalance(doc)
           b3 == MetricAbsolutism(doc)
           b4 == MetricCallToAction(doc)
           score == RoundScore(b1 + b2 + b3 + b4)
       IN  [bias_score_1_to_10 |-> Max(10, Min(100, score)), mocked |-> FALSE,
            details |-> <<b1, b2, b3, b4>>]

(***************************************************************************)
(* The feeds the configured URLs can serve                                 *)
(***************************************************************************)
BlankEntry ==
  [title |-> Absent, published |-> Absent, updated |-> Absent, summary |-> Absent,
   description |-> Absent, link |-> Absent, media_content |-> Absent,
   media_thumbnail |-> Absent, enclosures |-> Absent]

Media(url) == Dict([url |-> url])
Enclosure(type, href) == Dict([type |-> type, href |-> href])
Feed(title, entries) ==
  [t |-> "feed", v |-> [feed |-> Dict([title |-> title]), entries |-> entries]]

UrlR == <<"h","t","t","p",":","/","/","w","w","w",".","r",".","c","o","m","/","r","s","s">>
UrlL == <<"h","t","t","p",":","/","/","l",".","o","r","g","/","f","e","e","d">>
UrlC == <<"h","t","t","p",":","/","/","c",".","n","e","t","/","x">>

ImgA == Str(<<"h","t","t","p",":","/","/","r",".","c","o","m","/","a",".","p","n","g">>)
ImgB == Str(<<"h","t","t","p",":","/","/","l",".","o","r","g","/","b",".","j","p","g">>)

EntryAid ==
  [BlankEntry EXCEPT !.title = Str(<<" ","U","k","r","a","i","n","e"," ","a","i","d">>), !.summary = Str(<<"t","a","l","k","s"," ">>),
                     !.published = Str(<<"M","o","n">>), !.link = Str(<<"h","t","t","p",":","/","/","r",".","c","o","m","/","1">>),
                     !.media_content = List(<<Media(ImgA)>>)]
EntryBudget ==
  [BlankEntry EXCEPT !.title = Str(<<"B","u","d","g","e","t">>), !.description = Str(<<"K","y","i","v"," ","U","K","R","A","I","N","E"," ","v","o","t","e">>),
                     !.updated = Str(<<"T","u","e">>)]
EntrySports ==
  [BlankEntry EXCEPT !.title = Str(<<"S","p","o","r","t","s">>), !.summary = Str(<<"m","a","t","c","h">>),
                     !.enclosures = List(<<Enclosure(Str(<<"i","m","a","g","e","/","p","n","g">>), ImgB)>>)]
EntryUntitled ==
  [BlankEntry EXCEPT !.summary = Str(<<"w","a","r"," ","c","r","i","s","i","s">>),
                     !.media_thumbnail = List(<<Media(Str(<<>>))>>)]
EntryBadEnclosure ==
  [BlankEntry EXCEPT !.title = Str(<<"U","k","r","a","i","n","e">>),
                     !.enclosures = List(<<Enclosure(PyNone, ImgB)>>)]

FeedR == Feed(Str(<<"R"," ","N","e","w","s"," ">>), List(<<EntryAid>>))
FeedL == Feed(Str(<<"L"," ","P","o","s","t">>), List(<<EntryBudget, EntrySports>>))
FeedLBroken == Feed(Str(<<"L"," ","P","o","s","t">>), List(<<EntryBudget, EntryBadEnclosure>>))
FeedC == [t |-> "feed", v |-> [feed |-> Absent, entries |-> List(<<EntryUntitled>>)]]
FeedCNoEntries == [t |-> "feed", v |-> [feed |-> Absent, entries |-> Absent]]

\* the documents a URL can serve
Web(url) ==
  CASE url = UrlR -> {FeedR}
    [] url = UrlL -> {FeedL, FeedLBroken}
    [] url = UrlC -> {FeedC, FeedCNoEntries}
    [] OTHER      -> {}

\* what feedparser.parse can do for a URL: raise, or return a parsed feed
ParseOutcomes(url) ==
  {[raises |-> TRUE, feed |-> PyNone]} \cup {[raises |-> FALSE, feed |-> f] : f \in Web(url)}

(***************************************************************************)
(* Bounds                                                                  *)
(***************************************************************************)
MaxRepeat == 11      \* copies of one URL in the largest configuration
MaxCalls == 2        \* calls of gather_articles on one NewsGatherer

Copies(url, n) == [i \in 1..n |-> url]

ConfigFile(right, left, center) ==
  [found |-> TRUE, valid |-> TRUE,
   data |-> <<<<RightKey, right>>, <<LeftKey, left>>, <<CenterKey, center>>>>]

\* the configuration files: missing, invalid, a file without the center
\* key, one or no URL per bucket, and one URL listed MaxRepeat times
ConfigFiles ==
  {[found |-> FALSE, valid |-> FALSE, data |-> <<>>],
   [found |-> TRUE, valid |-> FALSE, data |-> <<>>],
   [found |-> TRUE, valid |-> TRUE, data |-> <<<<LeftKey, <<UrlL>>>>, <<RightKey, <<UrlR>>>>>>]}
  \cup {ConfigFile(r, l, c) : r \in {<<>>, <<UrlR>>}, l \in {<<>>, <<UrlL>>},
                              c \in {<<>>, <<UrlC>>}}
  \cup {ConfigFile(Copies(UrlR, MaxRepeat), <<>>, <<>>)}

TopicUkraine == Str(<<"U","k","r","a","i","n","e"," ","W","a","r"," ","C","r","i","s","i","s">>)
Topics == {PyNone, TopicUkraine}

(***************************************************************************)
(* State                                                                   *)
(***************************************************************************)
VARIABLES
  sources,      \* self.sources
  feedparser,   \* whether the feedparser module was imported
  pc,           \* where gather_articles is: idle, submit, collect, returned, raised
  topic,        \* the topic argument
  tasks,        \* the task list
  submitted,    \* how many tasks were handed to the executor
  queue,        \* the executor's work queue (FIFO)
  running,      \* bag of the tasks a worker is fetching
  finished,     \* bag of the completed futures as_completed has not yielded
  processed,    \* how many futures the loop has handled
  articles,     \* self.articles
  keywords,     \* the keyword list of the call
  returned,     \* the list gather_articles returned
  collected,    \* self.articles when the loop ended (history)
  log,          \* bag of the futures the call has handled (history)
  calls,        \* how many times gather_articles was called (history)
  nFeed,        \* _normalize_articles: the feed_data argument
  nBucket,      \* _normalize_articles: the bucket argument
  nUrl,         \* _normalize_articles: the source_url argument
  nResult,      \* _normalize_articles: Ok(list) or Raised
  nDone,        \* _normalize_articles was applied
  cAnalyzer,    \* OpinionClassifier: whether self.analyzer is set
  cArticles,    \* classify_articles: the list, enriched in place
  cVader,       \* the compound score the analyzer gives each article's text
  cDone,        \* classify_articles was applied
  sNlp,         \* ArticleScorer: whether self.nlp is set
  sDoc,         \* analyze_article: the counts of the parsed text
  sResult,      \* analyze_article: the returned record
  sDone         \* analyze_article was applied

gvars == <<sources, feedparser, pc, topic, tasks, submitted, queue, running,
           finished, processed, articles, keywords, returned, collected, log, calls>>

nvars == <<nFeed, nBucket, nUrl, nResult, nDone>>
cvars == <<cAnalyzer, cArticles, cVader, cDone>>
svars == <<sNlp, sDoc, sResult, sDone>>
vars == <<gvars, nvars, cvars, svars>>

InFlight == BagCardinality(running)

NIdle ==
  /\ nFeed = FeedC.v
  /\ nBucket = "center"
  /\ nUrl = UrlC
  /\ nResult = Raised
  /\ nDone = FALSE

CIdle ==
  /\ cAnalyzer = FALSE
  /\ cArticles = <<>>
  /\ cVader = <<>>
  /\ cDone = FALSE

SIdle ==
  /\ sNlp = FALSE
  /\ sDoc = [adj |-> 0, fact |-> 0, sources |-> 0, absolutist |-> 0, cta |-> 0]
  /\ sResult = AnalyzeArticle(FALSE, [adj |-> 0, fact |-> 0, sources |-> 0, absolutist |-> 0, cta |-> 0])
  /\ sDone = FALSE

\* the gatherer after construction (lines 52-54)
GInit ==
  /\ \E file \in ConfigFiles : sources = LoadConfig(file)
  /\ feedparser \in BOOLEAN
  /\ pc = "idle"
  /\ topic = PyNone
  /\ tasks = <<>>
  /\ submitted = 0
  /\ queue = <<>>
  /\ running = EmptyBag
  /\ finished = EmptyBag
  /\ processed = 0
  /\ articles = <<>>
  /\ keywords = <<>>
  /\ returned = <<>>
  /\ collected = <<>>
  /\ log = EmptyBag
  /\ calls = 0

\* gather_articles is called: lines 97-107
GatherArticles ==
  /\ pc \in {"idle", "returned"}
  /\ calls < MaxCalls
  /\ calls' = calls + 1
  /\ \E tp \in Topics : topic' = tp
  /\ articles' = <<>>
  /\ tasks' = BuildTasks(sources, 1)
  /\ pc' = IF BuildTasks(sources, 1) = <<>> THEN "collect" ELSE "submit"
  /\ submitted' = 0
  /\ processed' = 0
  /\ keywords' = <<>>
  /\ returned' = <<>>
  /\ collected' = <<>>
  /\ log' = EmptyBag
  /\ UNCHANGED <<sources, feedparser, queue, running, finished>>
  /\ UNCHANGED <<nvars, cvars, svars>>

\* executor.submit of the next task (line 113)
Submit ==
  /\ pc = "submit"
  /\ submitted < Len(tasks)
  /\ queue' = Append(queue, tasks[submitted + 1])
  /\ submitted' = submitted + 1
  /\ pc' = IF submitted + 1 = Len(tasks) THEN "collect" ELSE "submit"
  /\ UNCHANGED <<sources, feedparser, topic, tasks, running, finished, processed,
                 articles, keywords, returned, collected, log, calls>>
  /\ UNCHANGED <<nvars, cvars, svars>>

\* a worker of the pool takes the oldest queued task (max_workers, line 111)
StartFetch ==
  /\ queue # <<>>
  /\ InFlight < MaxWorkers
  /\ running' = running (+) SetToBag({Head(queue)})
  /\ queue' = Tail(queue)
  /\ UNCHANGED <<sources, feedparser, pc, topic, tasks, submitted, finished, processed,
                 articles, keywords, returned, collected, log, calls>>
  /\ UNCHANGED <<nvars, cvars, svars>>

\* a running _fetch_articles call returns and its future completes
FetchReturn ==
  \E task \in BagToSet(running) : \E outcome \in ParseOutcomes(task.url) :
    /\ running' = running (-) SetToBag({task})
    /\ finished' = finished (+) SetToBag({[task |-> task,
                                           res |-> FetchArticles(feedparser, outcome)]})
    /\ UNCHANGED <<sources, feedparser, pc, topic, tasks, submitted, queue, processed,
                   articles, keywords, returned, collected, log, calls>>
    /\ UNCHANGED <<nvars, cvars, svars>>
  /\ UNCHANGED <<nvars, cvars, svars>>

\* one iteration of the as_completed loop (lines 115-123)
ProcessFuture ==
  /\ pc = "collect"
  /\ \E fut \in BagToSet(finished) :
       LET r == CollectResult(articles, fut.task, fut.res)
       IN  /\ finished' = finished (-) SetToBag({fut})
           /\ articles' = r.articles
           /\ pc' = IF r.raised THEN "raised" ELSE "collect"
           /\ log' = log (+) SetToBag({fut})
  /\ processed' = processed + 1
  /\ UNCHANGED <<sources, feedparser, topic, tasks, submitted, queue, running,
                 keywords, returned, collected, calls>>
  /\ UNCHANGED <<nvars, cvars, svars>>

\* every future was handled: filter, sort, return (lines 125-144); without
\* a topic `filtered` is self.articles itself and the sort is in place
FilterSortReturn ==
  /\ pc = "collect"
  /\ processed = Len(tasks)
  /\ collected' = articles
  /\ keywords' = IF Truthy(topic) THEN Keywords(topic.v) ELSE <<>>
  /\ returned' = SortByImage(FilterByTopic(articles, topic))
  /\ articles' = IF Truthy(topic) THEN articles ELSE SortByImage(articles)
  /\ pc' = "returned"
  /\ UNCHANGED <<sources, feedparser, topic, tasks, submitted, queue, running,
                 finished, processed, log, calls>>
  /\ UNCHANGED <<nvars, cvars, svars>>


(***************************************************************************)
(* NewsGatherer: the system                                                *)
(***************************************************************************)
Init == GInit /\ NIdle /\ CIdle /\ SIdle

Next ==
  \/ GatherArticles
  \/ Submit
  \/ StartFetch
  \/ FetchReturn
  \/ ProcessFuture
  \/ FilterSortReturn

Spec == Init /\ [][Next]_vars

\* A ProcessFuture step, seen through `processed`: the steps of Next that
\* satisfy it are the ProcessFuture steps, and it is enabled exactly when
\* ProcessFuture is.
ProcessStep == pc = "collect" /\ finished # EmptyBag /\ processed' = processed + 1

\* A FilterSortReturn step, seen through `pc`, likewise.
ReturnStep == pc = "collect" /\ processed = Len(tasks) /\ pc' = "returned"

\* The executor's threads and the calling thread keep running.  Nothing
\* bounds feedparser.parse (no timeout is passed or set), so a started
\* fetch is not guaranteed to return; nor is the caller bound to call again.
FairSpec ==
  /\ Spec
  /\ WF_vars(Submit)
  /\ WF_vars(StartFetch)
  /\ WF_processed(ProcessStep)
  /\ WF_pc(ReturnStep)

(***************************************************************************)
(* gather_articles from line 125 on, for any collected list and topic      *)
(***************************************************************************)
MaxArticles == 3     \* length of the collected list

SourceR == Str(<<"R"," ","N","e","w","s">>)

ArticleOf(entry, bucket) == NormalizeEntry(entry, bucket, SourceR, UrlR).val

EntrySplit == [BlankEntry EXCEPT !.title = Str(<<"U","k","r">>), !.summary = Str(<<"a","i","n","e">>)]
EntryAB ==
  [BlankEntry EXCEPT !.title = Str(<<"a">>), !.summary = Str(<<"b">>),
                     !.media_content = List(<<Media(ImgA)>>)]

ArticlePool ==
  {ArticleOf(EntryAid, "right"), ArticleOf(EntryBudget, "left"),
   ArticleOf(EntrySports, "left"), ArticleOf(EntryUntitled, "center"),
   ArticleOf(EntrySplit, "right"), ArticleOf(EntryAB, "center")}

SeqsUpTo(S, n) == UNION {[1..k -> S] : k \in 0..n}

FilterTopics ==
  {PyNone, Str(<<>>), TopicUkraine, Str(<<"w","a","r">>), Str(<<"N","e","w","s"," ","R","e","p","o","r","t">>), Str(<<"a"," ","b">>),
   Str(<<" ","U","K","R","A","I","N","E">>), Str(<<" "," ">>), Str(<<"K","y","i","v"," ","s","p","o","r","t","s">>), Str(<<"C","r","i","s","i","s"," ","t","a","l","k","s">>)}

FInit ==
  /\ sources = <<>>
  /\ feedparser = TRUE
  /\ pc = "collect"
  /\ topic \in FilterTopics
  /\ tasks = <<>>
  /\ submitted = 0
  /\ queue = <<>>
  /\ running = EmptyBag
  /\ finished = EmptyBag
  /\ processed = 0
  /\ articles \in SeqsUpTo(ArticlePool, MaxArticles)
  /\ keywords = <<>>
  /\ returned = <<>>
  /\ collected = <<>>
  /\ log = EmptyBag
  /\ calls = 1
  /\ NIdle /\ CIdle /\ SIdle

FilterSpec == FInit /\ [][FilterSortReturn]_vars

(***************************************************************************)
(* _normalize_articles on any feed of the entry space                      *)
(***************************************************************************)
MaxEnclosures == 1   \* enclosures per entry

ImgT == Str(<<"h","t","t","p",":","/","/","t",".","i","o","/","t",".","g","i","f">>)
ImgE == Str(<<"h","t","t","p",":","/","/","e",".","i","o","/","e",".","p","n","g">>)

MediaValues(img) ==
  {Absent, PyNone, List(<<>>), List(<<Media(img)>>), List(<<Media(Str(<<>>))>>),
   List(<<Media(Absent)>>)}

EncSpace ==
  {Enclosure(ty, href) :
     ty \in {Absent, PyNone, Str(<<"i","m","a","g","e","/","p","n","g">>), Str(<<"a","u","d","i","o","/","m","p","e","g">>)},
     href \in {Absent, Str(<<>>), ImgE}}

EnclosureValues ==
  {Absent, PyNone} \cup {List(l) : l \in SeqsUpTo(EncSpace, MaxEnclosures)}

EntrySpace ==
  {[BlankEntry EXCEPT !.title = Str(<<" ","H","i"," ">>), !.published = pu, !.media_content = mc,
                      !.media_thumbnail = mt, !.enclosures = en] :
     pu \in {Absent, Str(<<"M","o","n"," ">>)}, mc \in MediaValues(ImgA),
     mt \in MediaValues(ImgT), en \in EnclosureValues}

NInit ==
  /\ \E e \in EntrySpace, ft \in {Absent, Dict([title |-> Str(<<"T","h","e"," ","H","i","l","l"," ">>)])} :
       nFeed = [feed |-> ft, entries |-> List(<<e>>)]
  /\ nBucket \in {"left", "right", "center"}
  /\ nUrl = UrlC
  /\ nResult = Raised
  /\ nDone = FALSE
  /\ GInit /\ sources = <<>> /\ feedparser = TRUE
  /\ CIdle /\ SIdle

\* _normalize_articles is applied to the feed
NormalizeFeed ==
  /\ ~nDone
  /\ nResult' = NormalizeArticles(nFeed, nBucket, nUrl)
  /\ nDone' = TRUE
  /\ UNCHANGED <<nFeed, nBucket, nUrl, gvars, cvars, svars>>

NormSpec == NInit /\ [][NormalizeFeed]_vars

(***************************************************************************)
(* classify_articles on any list of the cases                              *)
(***************************************************************************)
MaxBatch == 2        \* articles per classify_articles call

TextCases ==
  {[title |-> <<>>, content |-> <<>>, compound |-> 0],
   [title |-> <<" ">>, content |-> <<"\t">>, compound |-> 0],
   [title |-> <<"G","r","e","a","t"," ","w","i","n">>, content |-> <<"s","u","p","p","o","r","t">>, compound |-> 10000],
   [title |-> <<"G","o","o","d">>, content |-> <<"g","o","o","d"," ","g","o","o","d">>, compound |-> 1500],
   [title |-> <<"S","l","i","g","h","t">>, content |-> <<"p","l","u","s">>, compound |-> 1499],
   [title |-> <<"E","d","g","e">>, content |-> <<"u","p">>, compound |-> 1501],
   [title |-> <<"F","l","a","t">>, content |-> <<"m","e","m","o">>, compound |-> 0],
   [title |-> <<"D","i","p">>, content |-> <<"d","o","w","n">>, compound |-> -1499],
   [title |-> <<"B","a","d">>, content |-> <<>>, compound |-> -1500],
   [title |-> <<"W","o","r","s","e">>, content |-> <<"h","a","r","m">>, compound |-> -1501],
   [title |-> <<"T","e","r","r","o","r"," ","c","r","i","s","i","s">>, content |-> <<"k","i","l","l"," ","h","a","t","e"," ","f","a","i","l">>, compound |-> -10000],
   [title |-> <<"M","i","x","e","d">>, content |-> <<"g","o","o","d"," ","b","a","d">>, compound |-> 0],
   [title |-> <<"P","e","a","c","e">>, content |-> <<"p","e","a","c","e">>, compound |-> 5000]}

ClassifyCases ==
  {[art |-> [title |-> c.title, content |-> c.content, political_bucket |-> b],
    compound |-> c.compound] : c \in TextCases, b \in {"left", "right", "center"}}

CInit ==
  /\ cAnalyzer \in BOOLEAN
  /\ \E cases \in SeqsUpTo(ClassifyCases, MaxBatch) :
       /\ cArticles = [i \in 1..Len(cases) |-> cases[i].art]
       /\ cVader = [i \in 1..Len(cases) |-> cases[i].compound]
  /\ cDone = FALSE
  /\ GInit /\ sources = <<>> /\ feedparser = TRUE
  /\ NIdle /\ SIdle

\* classify_articles: every article of the list is enriched in place
ClassifyArticles ==
  /\ ~cDone
  /\ cArticles' = [i \in 1..Len(cArticles) |->
                     ClassifyArticle(cAnalyzer, cArticles[i], cVader[i])]
  /\ cDone' = TRUE
  /\ UNCHANGED <<cAnalyzer, cVader, gvars, nvars, svars>>

ClassifySpec == CInit /\ [][ClassifyArticles]_vars

(***************************************************************************)
(* analyze_article on any parsed document                                  *)
(***************************************************************************)
MaxPos == 16         \* adjective+adverb and noun+verb counts
MaxHits == 6         \* absolutist tokens

SInit ==
  /\ sNlp \in BOOLEAN
  /\ sDoc \in [adj : 0..MaxPos, fact : 0..MaxPos, sources : 0..4,
               absolutist : 0..MaxHits, cta : 0..3]
  /\ sResult = AnalyzeArticle(FALSE, [adj |-> 0, fact |-> 0, sources |-> 0, absolutist |-> 0, cta |-> 0])
  /\ sDone = FALSE
  /\ GInit /\ sources = <<>> /\ feedparser = TRUE
  /\ NIdle /\ CIdle

\* analyze_article is applied to the document
ScoreArticle ==
  /\ ~sDone
  /\ sResult' = AnalyzeArticle(sNlp, sDoc)
  /\ sDone' = TRUE
  /\ UNCHANGED <<sNlp, sDoc, gvars, nvars, cvars>>

ScoreSpec == SInit /\ [][ScoreArticle]_vars

(***************************************************************************)
(* Properties                                                              *)
(***************************************************************************)
Range(seq) == {seq[i] : i \in 1..Len(seq)}
Count(seq, x) == Cardinality({i \in 1..Len(seq) : seq[i] = x})
IsPlaceholder(art) == art.image.t = "str" /\ IsSubstr(PlaceholderHost, art.image.v)

\* the future held a feed that _normalize_articles accepts
Succeeded(fut) ==
  /\ fut.res.ok
  /\ fut.res.val.t = "feed"
  /\ NormalizeArticles(fut.res.val.v, fut.task.bucket, fut.task.url).ok

ArticlesOf(fut) == NormalizeArticles(fut.res.val.v, fut.task.bucket, fut.task.url).val

\* C1: gather_articles never raises, and when it returns every task was
\* handled and every article of every source whose fetch and normalization
\* succeeded is in the collected list, whatever happened to the others.
C1_FailuresIsolated ==
  /\ pc # "raised"
  /\ pc = "returned" =>
       /\ BagCardinality(log) = Len(tasks)
       /\ \A fut \in BagToSet(log) :
            Succeeded(fut) => Range(ArticlesOf(fut)) \subseteq Range(collected)

\* C1 witness: a call returned in which one source failed (no data, or a
\* feed that cannot be normalized) and another one delivered articles.
C1_Witness ==
  /\ pc = "returned"
  /\ \E bad, good \in BagToSet(log) :
       /\ ~Succeeded(bad)
       /\ bad.res.val.t = "feed"
       /\ Succeeded(good)
       /\ ArticlesOf(good) # <<>>
       /\ Range(ArticlesOf(good)) \subseteq Range(collected)
  /\ \E none \in BagToSet(log) : none.res.val = PyNone

\* C2: a call of gather_articles that has started eventually returns, even
\* if a fetch never completes.
C2_HungFetchDoesNotBlock == (pc \in {"submit", "collect"}) ~> (pc = "returned")

\* C3: at most 10 fetches are in flight at any time, and every submitted
\* task is eventually taken by a worker (the work queue drains).
C3_CapAndEveryTaskRuns ==
  /\ [](InFlight <= 10)
  /\ (queue # <<>>) ~> (queue = <<>>)

\* The safety half of C3 on its own: never more than max_workers fetches
\* in flight, also with more than 10 tasks.
InFlightWithinCap == InFlight <= 10

\* C4: after classify_articles every center article is NEUTRAL with score
\* 0.0, whatever its text and whether or not the analyzer is available.
C4_CenterForcedNeutral ==
  cDone => \A i \in 1..Len(cArticles) :
             cArticles[i].political_bucket = "center" =>
               cArticles[i].stance = "NEUTRAL" /\ cArticles[i].sentiment_score = 0

\* C4 witness: a classified center article whose text the analyzer scores
\* -1.0 and which holds five negative keywords.
C4_Witness ==
  /\ cDone
  /\ \E i \in 1..Len(cArticles) :
       /\ cArticles[i].political_bucket = "center"
       /\ cVader[i] = -10000
       /\ WordsPresent(NegativeWords, Lower(cArticles[i].title \o cArticles[i].content)) = 5
       /\ cArticles[i].stance = "NEUTRAL"

\* C5: for every non-center article, score >= 0.15 gives IN_FAVOR, score
\* <= -0.15 gives AGAINST, anything strictly between gives NEUTRAL, and a
\* text that is empty after trimming scores 0.0 and is NEUTRAL.
C5_StanceThresholds ==
  cDone => \A i \in 1..Len(cArticles) :
             LET a == cArticles[i]
             IN  a.political_bucket # "center" =>
                   /\ a.sentiment_score >= 1500 => a.stance = "IN_FAVOR"
                   /\ a.sentiment_score <= -1500 => a.stance = "AGAINST"
                   /\ (a.sentiment_score > -1500 /\ a.sentiment_score < 1500)
                        => a.stance = "NEUTRAL"
                   /\ Strip(a.title \o <<" ">> \o a.content) = <<>>
                        => a.sentiment_score = 0 /\ a.stance = "NEUTRAL"

\* C5 witness: non-center articles exactly on a boundary and just inside it.
C5_Witness ==
  /\ cDone
  /\ \E i, j \in 1..Len(cArticles) :
       /\ cArticles[i].political_bucket # "center"
       /\ cArticles[j].political_bucket # "center"
       /\ \/ cArticles[i].sentiment_score = 1500 /\ cArticles[i].stance = "IN_FAVOR"
             /\ cArticles[j].sentiment_score = 1499 /\ cArticles[j].stance = "NEUTRAL"
          \/ cArticles[i].sentiment_score = -1500 /\ cArticles[i].stance = "AGAINST"
             /\ cArticles[j].sentiment_score = -1499 /\ cArticles[j].stance = "NEUTRAL"

\* C6: the bias score is within [1.0, 10.0]; with the model available each
\* sub-score is within its weight (30, 30, 20, 20, summing to 100) and the
\* score is the sum / 10 rounded to one decimal and clamped (1.0 when the
\* sum is below 10); without the model it is 5.0.
C6_BiasScoreClamped ==
  sDone =>
    LET score == sResult.bias_score_1_to_10
        d == sResult.details
        total == d[1] + d[2] + d[3] + d[4]
    IN  /\ score >= 10 /\ score <= 100
        /\ sNlp =>
             /\ d[1] >= 0 /\ d[1] <= 300
             /\ d[2] >= 0 /\ d[2] <= 300
             /\ d[3] >= 0 /\ d[3] <= 200
             /\ d[4] >= 0 /\ d[4] <= 200
             /\ WeightSubjectivity + WeightAttribution + WeightAbsolutism
                  + WeightCallToAction = 100
             /\ IF total < 100 THEN score = 10
                ELSE 10 * score - total <= 5 /\ total - 10 * score <= 5
        /\ ~sNlp => score = 50

\* C6 witness: a scored document all of whose sub-scores are 0, with 1.0.
C6_Witness ==
  /\ sDone /\ sNlp
  /\ sResult.details = <<0, 0, 0, 0>>
  /\ sResult.bias_score_1_to_10 = 10

\* C7: for a supplied topic the keywords are the lowercased tokens longer
\* than 3 characters minus the stop words; if none is left, those tokens;
\* if there were none, the lowercased topic.  Never empty; exactly
\* {"ukraine"} for "Ukraine War Crisis".
C7_KeywordSet ==
  (pc = "returned" /\ Truthy(topic)) =>
    LET words == Split(topic.v)
        tokens == {Lower(words[i]) : i \in {j \in 1..Len(words) : Len(words[j]) > 3}}
        kept == tokens \ STOP_WORDS
        expected == IF kept # {} THEN kept
                    ELSE IF tokens # {} THEN tokens
                    ELSE {Lower(topic.v)}
    IN  /\ Range(keywords) = expected
        /\ keywords # <<>>
        /\ topic = TopicUkraine => Range(keywords) = {<<"u","k","r","a","i","n","e">>}

\* C7 witness: the call with topic "Ukraine War Crisis" returned.
C7_Witness ==
  /\ pc = "returned"
  /\ topic = TopicUkraine
  /\ keywords = <<<<"u","k","r","a","i","n","e">>>>

\* the multiset of `out` is that of the elements of `all` satisfying keep
KeepsExactly(out, all, keep(_)) ==
  /\ Range(out) \subseteq Range(all)
  /\ \A a \in Range(all) : Count(out, a) = IF keep(a) THEN Count(all, a) ELSE 0

\* C8 as stated: with a topic the returned articles are exactly the
\* collected ones with a keyword as a case-insensitive substring of title
\* immediately followed by content; without a topic, all of them.
C8_FilterOnTitleContent ==
  pc = "returned" =>
    IF Truthy(topic)
    THEN KeepsExactly(returned, collected,
           LAMBDA a : \E k \in Range(keywords) :
                        IsSubstr(Lower(k), Lower(a.title.v \o a.content.v)))
    ELSE KeepsExactly(returned, collected, LAMBDA a : TRUE)

\* C8 amended: the text searched is title, one space, content.
C8_FilterOnTitleSpaceContent ==
  pc = "returned" =>
    IF Truthy(topic)
    THEN KeepsExactly(returned, collected,
           LAMBDA a : \E k \in Range(keywords) :
                        IsSubstr(Lower(k), Lower(a.title.v \o <<" ">> \o a.content.v)))
    ELSE KeepsExactly(returned, collected, LAMBDA a : TRUE)

\* C8 witness: with a topic, one collected article matched only through
\* upper-case text and was kept while another was dropped.
C8_Witness ==
  /\ pc = "returned" /\ Truthy(topic)
  /\ \E a \in Range(returned) :
       ~(\E k \in Range(keywords) : IsSubstr(k, a.title.v \o <<" ">> \o a.content.v))
  /\ \E b \in Range(collected) : b \notin Range(returned)

\* C9: in the returned list no placeholder-image article precedes a
\* real-image one, each group keeps the order it had before the sort, and
\* the sort adds and removes nothing.
C9_StableImageSort ==
  pc = "returned" =>
    LET before == FilterByTopic(collected, topic)
    IN  /\ \A i, j \in 1..Len(returned) :
             i < j => ~(IsPlaceholder(returned[i]) /\ ~IsPlaceholder(returned[j]))
        /\ SelectSeq(returned, LAMBDA a : ~IsPlaceholder(a))
             = SelectSeq(before, LAMBDA a : ~IsPlaceholder(a))
        /\ SelectSeq(returned, IsPlaceholder) = SelectSeq(before, IsPlaceholder)
        /\ Len(returned) = Len(before)

\* C9 witness: the sort had to move a real-image article in front of a
\* placeholder one, with two distinct articles in one group.
C9_Witness ==
  /\ pc = "returned"
  /\ Len(returned) = 3
  /\ IsPlaceholder(collected[1]) /\ ~IsPlaceholder(collected[3])
  /\ \E i, j \in 1..3 :
       /\ i < j /\ returned[i] # returned[j]
       /\ IsPlaceholder(returned[i]) = IsPlaceholder(returned[j])

\* C10: every article _normalize_articles produces has an image that is a
\* non-empty string, for every combination of media_content,
\* media_thumbnail and enclosures.
C10_ImageNeverEmpty ==
  (nDone /\ nResult.ok) =>
    \A i \in 1..Len(nResult.val) :
      nResult.val[i].image.t = "str" /\ nResult.val[i].image.v # <<>>

\* C10 witness: an entry whose media URL is the empty string and whose
\* image enclosure has no href was normalized, to the generated avatar.
C10_Witness ==
  /\ nDone /\ nResult.ok
  /\ nFeed.entries.v[1].media_content = List(<<Media(Str(<<>>))>>)
  /\ nFeed.entries.v[1].enclosures = List(<<Enclosure(Str(<<"i","m","a","g","e","/","p","n","g">>), Absent)>>)
  /\ IsPlaceholder(nResult.val[1])

\* how often the words of the list occur in the text, every occurrence
\* counted (no keyword of the lists overlaps itself)
Occurrences(words, text) ==
  Cardinality({ip \in (1..Len(words)) \X (1..Len(text)) :
                 /\ ip[2] + Len(words[ip[1]]) - 1 <= Len(text)
                 /\ SubSeq(text, ip[2], ip[2] + Len(words[ip[1]]) - 1) = words[ip[1]]})

\* C11: without the sentiment model the score of a non-center article with
\* text is 0.3 per occurrence of a positive keyword minus 0.3 per
\* occurrence of a negative keyword in the lowercased text, clamped to
\* [-1.0, 1.0]; the same positive keyword twice and nothing else gives 0.6.
C11_FallbackPerOccurrence ==
  (cDone /\ ~cAnalyzer) =>
    \A i \in 1..Len(cArticles) :
      LET a == cArticles[i]
          text == a.title \o <<" ">> \o a.content
          text_lower == Lower(text)
      IN  (a.political_bucket # "center" /\ Strip(text) # <<>>) =>
            a.sentiment_score =
              Max(-10000, Min(10000, 3000 * Occurrences(PositiveWords, text_lower)
                                     - 3000 * Occurrences(NegativeWords, text_lower)))

\* the URL a media field yields: that of its first item, when there is one
\* and it is a non-empty string
MediaUrl(field) ==
  IF field.t = "list" /\ Len(field.v) > 0 /\ field.v[1].t = "dict"
     /\ field.v[1].v.url.t = "str" /\ field.v[1].v.url.v # <<>>
  THEN field.v[1].v.url
  ELSE PyNone

\* whether an enclosure's type is a string that starts with image/
IsImageEnclosure(enc) ==
  /\ enc.t = "dict"
  /\ enc.v.type.t = "str"
  /\ StartsWith(enc.v.type.v, ImagePrefix)

\* the href of the first image enclosure, when it is a non-empty string
EnclosureUrl(field) ==
  IF field.t = "list" /\ \E i \in 1..Len(field.v) : IsImageEnclosure(field.v[i])
  THEN LET first == CHOOSE i \in 1..Len(field.v) :
                      /\ IsImageEnclosure(field.v[i])
                      /\ \A j \in 1..(i - 1) : ~IsImageEnclosure(field.v[j])
           href == field.v[first].v.href
       IN  IF href.t = "str" /\ href.v # <<>> THEN href ELSE PyNone
  ELSE PyNone

\* the image of the highest-priority step that yields one
ExpectedImage(entry, source_name, bucket) ==
  IF MediaUrl(entry.media_content) # PyNone THEN MediaUrl(entry.media_content)
  ELSE IF MediaUrl(entry.media_thumbnail) # PyNone THEN MediaUrl(entry.media_thumbnail)
  ELSE IF EnclosureUrl(entry.enclosures) # PyNone THEN EnclosureUrl(entry.enclosures)
  ELSE Str(PlaceholderUrl(source_name, bucket))

\* C12: _normalize_articles gives every entry of the feed an article whose
\* image is the URL of the first step that yields one (media_content,
\* media_thumbnail, first image enclosure, generated placeholder); no
\* missing or malformed sub-field, a non-string enclosure type included,
\* aborts the entry or the feed.
C12_ImageChainNeverAborts ==
  nDone =>
    /\ nResult.ok
    /\ Len(nResult.val) = Len(nFeed.entries.v)
    /\ \A i \in 1..Len(nResult.val) :
         nResult.val[i].image =
           ExpectedImage(nFeed.entries.v[i], SourceName(nFeed, nUrl).val.v, nBucket)

\* C13: every text field of a normalized article (title, source, content,
\* published_at) has no leading or trailing whitespace.
C13_TextFieldsTrimmed ==
  (nDone /\ nResult.ok) =>
    \A i \in 1..Len(nResult.val) :
      LET a == nResult.val[i]
      IN  \A f \in {a.title, a.source, a.content, a.published_at} :
            f.t = "str" /\ Strip(f.v) = f.v

RECURSIVE SumOver(_, _)
\* the sum of fn[x] over the x of the finite set S
SumOver(fn, S) ==
  IF S = {} THEN 0
  ELSE LET x == CHOOSE y \in S : TRUE
       IN  fn[x] + SumOver(fn, S \ {x})

\* how often article a is produced by the feeds fetched successfully among
\* the futures of the bag, each future counted as often as it is in the bag
Produced(futs, a) ==
  SumOver([f \in BagToSet(futs) |->
             CopiesIn(f, futs) * (IF Succeeded(f) THEN Count(ArticlesOf(f), a) ELSE 0)],
          BagToSet(futs))

\* the list holds exactly the articles the futures of the bag produced,
\* each as often as it was produced
IsMultisetUnion(list, futs) ==
  /\ \A a \in Range(list) : Count(list, a) = Produced(futs, a)
  /\ \A f \in BagToSet(futs) :
       Succeeded(f) => Range(ArticlesOf(f)) \subseteq Range(list)

\* C14: in every call, first or later, and for every completion order,
\* the collection built so far is exactly the multiset union of the
\* normalized articles of the successfully fetched feeds handled so far in
\* this call, and so is the collection the loop ends with: nothing lost,
\* nothing duplicated, nothing carried over from an earlier call.
C14_CollectionIsMultisetUnion ==
  /\ pc \in {"submit", "collect"} => IsMultisetUnion(articles, log)
  /\ pc = "returned" =>
       /\ BagCardinality(log) = Len(tasks)
       /\ IsMultisetUnion(collected, log)

\* C14 witness: a second call returned, having merged the same article from
\* several successful fetches beside a failed one.
C14_Witness ==
  /\ pc = "returned"
  /\ calls = 2
  /\ \E a \in Range(collected) : Count(collected, a) >= 2
  /\ \E f \in BagToSet(log) : Succeeded(f) /\ CopiesIn(f, log) >= 2
  /\ \E f \in BagToSet(log) : ~Succeeded(f)

=============================================================================
